---- MODULE Spec2Model ----
(***************************************************************************)
(* Digilent HDMI DRM driver (drivers/gpu/drm/xlnx/digilent_hdmi_*.c).      *)
(*                                                                         *)
(* The model follows struct digilent_hdmi_private: the handles acquired by *)
(* digilent_hdmi_parse_of, the DRM objects built by probe, the encoder     *)
(* clock flag, the CRTC's pending vblank event and the plane's DMA         *)
(* template.  Every driver entry point is one action.  Calls made to the   *)
(* kernel (clk, dmaengine, xlnx bridge, i2c, DRM core) are recorded, in    *)
(* call order, in `log`, which holds the calls of the last entry point.    *)
(***************************************************************************)
EXTENDS Integers, Sequences, FiniteSets, TLC

VARIABLES
    phase,        \* "unbound" | "bound" | "i2c_put" | "bridge_put" |
                  \* "of_released" | "shut_down" | "poll_stopped" |
                  \* "cleaned_up" | "removed"
    probes,       \* number of probe attempts made so far
    last_op,      \* the entry point that ran last
    ret,          \* its return value ("OK" or an errno name)
    log,          \* the kernel calls it made, in order
    fault,        \* the kernel call forced to fail in the last probe
    of_node,      \* the device-tree node the last probe parsed
    hdmi_clock,   \* private->hdmi_clock: "null" | "devm" (device-managed)
    dma,          \* private->dma: "null" | "held" | "released" (dangling)
    vtc_bridge,   \* private->vtc_bridge
    i2c_bus,      \* private->i2c_bus
    limits,       \* private->fmax, hmax, vmax, hpref, vpref
    drm_dev,      \* private->drm_dev
    polling,      \* per drm_device allocated, oldest first: its connector
                  \* polling work is armed (drm_kms_helper_poll_init)
    objs,         \* DRM objects on the mode-config lists
    dma_template, \* private->dma_template: "null" | "held" | "released"
    clk_enabled,  \* private->clk_enabled
    n_prepare,    \* clk_prepare_enable calls made since probe
    n_unprepare,  \* clk_disable_unprepare calls made since probe
    crtc_active,  \* the commit engine's view: CRTC enabled
    settle_ms,    \* argument of the last msleep of crtc_enable (two halves)
    event,        \* crtc->state->event: 0 (NULL) or the id of the pending event
    ev_queued,    \* events the commit engine has placed in crtc->state->event
    ev_sent,      \* drm_crtc_send_vblank_event calls, by event id
    plane_state,  \* plane->state (crtc, fb, crtc_x, crtc_y, crtc_w, crtc_h)
    tmpl,         \* contents of *private->dma_template
    dma_busy,     \* a descriptor is issued on the DMA channel
    mode_arg,     \* the mode last passed to the connector's mode_valid
    count,        \* return value of the last get_modes
    probed_modes, \* connector->probed_modes after the last get_modes
    pc,           \* position of each context inside atomic_begin
    ev_local,     \* the local variable event of each context
    event_lock,   \* holder of dev->event_lock, 0 when free
    adjusted_mode, \* crtc->state->adjusted_mode of the last crtc_enable
    div0,         \* the last crtc_enable divided by zero
    clk_rate      \* rate in Hz of the last clk_set_rate (unsigned long, four
                  \* 16-bit limbs), 0 before any

vars == << phase, probes, last_op, ret, log, fault, of_node, hdmi_clock, dma,
           vtc_bridge, i2c_bus, limits, drm_dev, polling, objs, dma_template,
           clk_enabled, n_prepare, n_unprepare, crtc_active, settle_ms,
           event, ev_queued, ev_sent, plane_state, tmpl, dma_busy,
           mode_arg, count, probed_modes, pc, ev_local, event_lock,
           adjusted_mode, div0, clk_rate >>

lifecycle_vars == << phase, probes, fault, of_node, hdmi_clock, dma, vtc_bridge,
                     i2c_bus, limits, drm_dev, polling, objs, dma_template >>
clock_vars == << clk_enabled, n_prepare, n_unprepare >>
event_vars == << event, ev_queued, ev_sent >>
plane_vars == << plane_state, tmpl, dma_busy >>
conn_vars == << mode_arg, count, probed_modes >>
step_vars == << pc, ev_local, event_lock >>
mode_vars == << adjusted_mode, div0, clk_rate >>

-----------------------------------------------------------------------------
(* Bounds of the model *)

MaxProbes == 2
MaxClkCalls == 3
MaxEvents == 2

-----------------------------------------------------------------------------
(* Sequences of kernel calls *)

RECURSIVE Count(_, _)
Count(s, e) ==
    IF s = << >> THEN 0
    ELSE (IF Head(s) = e THEN 1 ELSE 0) + Count(Tail(s), e)

\* Position of the first call e in s, 0 when s has none.
First(s, e) ==
    IF \E i \in 1..Len(s) : s[i] = e
    THEN CHOOSE i \in 1..Len(s) : s[i] = e /\ \A j \in 1..(i-1) : s[j] # e
    ELSE 0

Has(s, e) == \E i \in 1..Len(s) : s[i] = e

\* The calls of s that belong to set E, in order.
RECURSIVE Only(_, _)
Only(s, E) ==
    IF s = << >> THEN << >>
    ELSE (IF Head(s) \in E THEN << Head(s) >> ELSE << >>) \o Only(Tail(s), E)

\* A handle field after the calls of s: get sets it, put leaves the pointer
\* in place but gives the reference back.
RECURSIVE Handle(_, _, _, _)
Handle(h, s, get, put) ==
    IF s = << >> THEN h
    ELSE Handle(IF Head(s) = get THEN "held"
                ELSE IF Head(s) = put /\ h # "null" THEN "released"
                ELSE h,
                Tail(s), get, put)

-----------------------------------------------------------------------------
(* Device-tree configuration: digilent_hdmi_parse_of *)

DIGILENT_ENC_MAX_FREQ == 150000
DIGILENT_ENC_MAX_H == 1920
DIGILENT_ENC_MAX_V == 1080
DIGILENT_ENC_PREF_H == 1280
DIGILENT_ENC_PREF_V == 720

\* of_property_read_u32 fails (value -1 here) when the property is absent.
NoProp == -1

\* A phandle property: not declared, declared with its instance registered,
\* or declared with its instance not registered yet.
PhandleStates == { "absent", "ready", "notready" }

LimitProps ==
    { [fmax |-> NoProp, hmax |-> NoProp, vmax |-> NoProp,
       hpref |-> NoProp, vpref |-> NoProp],
      [fmax |-> 75000, hmax |-> 1280, vmax |-> 720,
       hpref |-> 1920, vpref |-> 1080] }

OfNodes ==
    { [vtc |-> v, edid_i2c |-> e, props |-> p] :
        v \in PhandleStates, e \in PhandleStates, p \in LimitProps }

\* Kernel calls of probe that can be made to fail.
ParseFaults == { "clk_get", "dma_request" }
CrtcFaults == { "template_alloc", "plane_init", "crtc_init" }
EncoderFaults == { "encoder_init" }
ConnectorFaults == { "connector_init", "connector_register", "attach_encoder" }
ConstructionFaults ==
    CrtcFaults \cup EncoderFaults \cup ConnectorFaults \cup { "dev_register" }
Faults ==
    { "none", "private_alloc", "dev_alloc" } \cup ParseFaults
        \cup ConstructionFaults

ReadLimits(p) ==
    [fmax  |-> IF p.fmax  = NoProp THEN DIGILENT_ENC_MAX_FREQ ELSE p.fmax,
     hmax  |-> IF p.hmax  = NoProp THEN DIGILENT_ENC_MAX_H ELSE p.hmax,
     vmax  |-> IF p.vmax  = NoProp THEN DIGILENT_ENC_MAX_V ELSE p.vmax,
     hpref |-> IF p.hpref = NoProp THEN DIGILENT_ENC_PREF_H ELSE p.hpref,
     vpref |-> IF p.vpref = NoProp THEN DIGILENT_ENC_PREF_V ELSE p.vpref]

\* private is kzalloc'ed: every limit is 0 until parse_of sets it.
ZeroLimits == [fmax |-> 0, hmax |-> 0, vmax |-> 0, hpref |-> 0, vpref |-> 0]

\* Unwind labels of parse_of.  vtc is private->vtc_bridge at the goto.
VtcBridgeGetFail == << "dma_release" >>

I2cAdapterFindFail_Unchecked(vtc) == << "bridge_put" >> \o VtcBridgeGetFail

I2cAdapterFindFail(vtc) ==
    (IF vtc # "null" THEN << "bridge_put" >> ELSE << >>) \o VtcBridgeGetFail

ParseOf_AbsentDefers(n, f) ==
    IF f = "clk_get" THEN [ret |-> "ERR", log |-> << >>]
    ELSE IF f = "dma_request" THEN [ret |-> "ERR", log |-> << "clk_get" >>]
    ELSE IF n.vtc # "ready"
    THEN [ret |-> "EPROBE_DEFER",
          log |-> << "clk_get", "dma_request" >> \o VtcBridgeGetFail]
    ELSE
      LET a == << "clk_get", "dma_request", "bridge_get" >>
          vtc == Handle("null", a, "bridge_get", "bridge_put")
      IN  IF n.edid_i2c # "ready"
          THEN [ret |-> "EPROBE_DEFER", log |-> a \o I2cAdapterFindFail(vtc)]
          ELSE [ret |-> "OK", log |-> a \o << "i2c_get", "read_limits" >>]

\* The calls of parse_of and its return value, for node n and forced fault f.
\* A missing vtc or edid-i2c property is reported and parsing goes on.
ParseOf(n, f) ==
    IF f = "clk_get" THEN [ret |-> "ERR", log |-> << >>]
    ELSE IF f = "dma_request" THEN [ret |-> "ERR", log |-> << "clk_get" >>]
    ELSE IF n.vtc = "notready"
    THEN [ret |-> "EPROBE_DEFER",
          log |-> << "clk_get", "dma_request" >> \o VtcBridgeGetFail]
    ELSE
      LET a == << "clk_get", "dma_request" >> \o
               (IF n.vtc = "ready" THEN << "bridge_get" >>
                ELSE << "report_no_vtc" >>)
          vtc == Handle("null", a, "bridge_get", "bridge_put")
      IN  IF n.edid_i2c = "notready"
          THEN [ret |-> "EPROBE_DEFER", log |-> a \o I2cAdapterFindFail(vtc)]
          ELSE [ret |-> "OK",
                log |-> a \o (IF n.edid_i2c = "ready"
                              THEN << "i2c_get" >>
                              ELSE << "report_no_i2c" >>)
                          \o << "read_limits" >>]

\* The three statements of digilent_hdmi_of_release, for the handle fields
\* as they stand.
OfReleaseI2c(i2c) == IF i2c # "null" THEN << "i2c_put" >> ELSE << >>

OfReleaseBridge(vtc) == IF vtc # "null" THEN << "bridge_put" >> ELSE << >>

OfReleaseDma == << "dma_release" >>

\* digilent_hdmi_of_release
OfRelease(i2c, vtc) ==
    OfReleaseI2c(i2c) \o OfReleaseBridge(vtc) \o OfReleaseDma

-----------------------------------------------------------------------------
(* Object construction and destruction *)

\* digilent_hdmi_crtc_destroy
CrtcDestroy == << "crtc_cleanup", "template_free" >>

\* digilent_hdmi_connector_destroy
ConnectorDestroy == << "connector_unregister", "connector_cleanup" >>

\* drm_mode_config_cleanup: the destroy callback of every object on the
\* mode-config lists (encoders, connectors, planes, CRTCs, in that order).
ModeConfigCleanup(o) ==
    (IF "encoder" \in o THEN << "encoder_cleanup" >> ELSE << >>)
    \o (IF "connector" \in o THEN ConnectorDestroy ELSE << >>)
    \o (IF "plane" \in o THEN << "plane_cleanup" >> ELSE << >>)
    \o (IF "crtc" \in o THEN CrtcDestroy ELSE << >>)

\* The objects on the mode-config lists after the calls of s.
RECURSIVE Objects(_, _)
Objects(o, s) ==
    IF s = << >> THEN o
    ELSE Objects(
           CASE Head(s) = "plane_init" -> o \cup { "plane" }
             [] Head(s) = "crtc_init" -> o \cup { "crtc" }
             [] Head(s) = "encoder_init" -> o \cup { "encoder" }
             [] Head(s) = "connector_init" -> o \cup { "connector" }
             [] Head(s) = "plane_cleanup" -> o \ { "plane" }
             [] Head(s) = "crtc_cleanup" -> o \ { "crtc" }
             [] Head(s) = "encoder_cleanup" -> o \ { "encoder" }
             [] Head(s) = "connector_cleanup" -> o \ { "connector" }
             [] OTHER -> o,
           Tail(s))

\* digilent_hdmi_crtc_create
CrtcCreate(f) ==
    IF f = "template_alloc" THEN [ret |-> "ENOMEM", log |-> << >>]
    ELSE IF f = "plane_init"
    THEN [ret |-> "ERR", log |-> << "template_alloc", "template_free" >>]
    ELSE IF f = "crtc_init"
    THEN [ret |-> "ERR",
          log |-> << "template_alloc", "plane_init", "plane_cleanup",
                     "template_free" >>]
    ELSE [ret |-> "OK", log |-> << "template_alloc", "plane_init", "crtc_init" >>]

\* digilent_hdmi_encoder_create
EncoderCreate(f) ==
    IF f = "encoder_init" THEN [ret |-> "ERR", log |-> << >>]
    ELSE [ret |-> "OK", log |-> << "encoder_init" >>]

\* digilent_hdmi_connector_create
ConnectorCreate(f) ==
    IF f = "connector_init" THEN [ret |-> "ERR", log |-> << >>]
    ELSE IF f = "connector_register"
    THEN [ret |-> "ERR", log |-> << "connector_init", "connector_cleanup" >>]
    ELSE IF f = "attach_encoder"
    THEN [ret |-> "ERR",
          log |-> << "connector_init", "connector_register",
                     "connector_unregister", "connector_cleanup" >>]
    ELSE [ret |-> "OK", log |-> << "connector_init", "connector_register",
                                  "attach_encoder" >>]

-----------------------------------------------------------------------------
(* digilent_hdmi_platform_probe *)

I2cAfter(s) == Handle("null", s, "i2c_get", "i2c_put")
VtcAfter(s) == Handle("null", s, "bridge_get", "bridge_put")

\* The error path of probe from label crtc_create_fail on, after calls s.
CrtcCreateFail_NoCleanup(s) == OfRelease(I2cAfter(s), VtcAfter(s))

CrtcCreateFail(s) ==
    << "mode_config_cleanup" >> \o ModeConfigCleanup(Objects({}, s))
    \o OfRelease(I2cAfter(s), VtcAfter(s))

\* The calls of probe and its return value, for node n and forced fault f.
ProbeCalls(n, f) ==
    IF f = "private_alloc" THEN [ret |-> "ENOMEM", log |-> << >>]
    ELSE
    LET p == ParseOf(n, f) IN
    IF p.ret # "OK" THEN p
    ELSE IF f = "dev_alloc"
    THEN [ret |-> "ERR",
          log |-> p.log \o OfRelease(I2cAfter(p.log), VtcAfter(p.log))]
    ELSE
    LET a == p.log \o << "dev_alloc", "mode_config_init", "poll_init" >>
        c == CrtcCreate(f)
        e == EncoderCreate(f)
        k == ConnectorCreate(f)
        ac == a \o c.log
        ae == ac \o e.log
        ak == ae \o k.log \o << "mode_config_reset" >>
    IN  IF c.ret # "OK" THEN [ret |-> c.ret, log |-> ac \o CrtcCreateFail(ac)]
        ELSE IF e.ret # "OK"
        THEN [ret |-> e.ret, log |-> ae \o CrtcCreateFail(ae)]
        ELSE IF k.ret # "OK"
        THEN [ret |-> k.ret,
              log |-> ae \o k.log \o CrtcCreateFail(ae \o k.log)]
        ELSE IF f = "dev_register"
        THEN [ret |-> "ERR", log |-> ak \o CrtcCreateFail(ak)]
        ELSE [ret |-> "OK", log |-> ak \o << "dev_register", "fbdev_setup" >>]

-----------------------------------------------------------------------------
(* Clock/encoder controller: digilent_hdmi_encoder.c *)

\* digilent_hdmi_encoder_enable, for private->clk_enabled = en.
EncoderEnableCalls_Unguarded(en) == << "clk_prepare_enable" >>

EncoderEnableCalls(en) ==
    IF ~en THEN << "clk_prepare_enable" >> ELSE << >>

\* digilent_hdmi_encoder_disable, for private->clk_enabled = en.
EncoderDisableCalls_Unguarded(en) == << "clk_disable_unprepare" >>

EncoderDisableCalls(en) ==
    IF en THEN << "clk_disable_unprepare" >> ELSE << >>

-----------------------------------------------------------------------------
(* Timing/CRTC controller: digilent_hdmi_crtc.c *)

\* adjusted_mode: clock in kHz, total and active sizes in pixels and lines.
Modes ==
    { [clock |-> 148500, htotal |-> 2200, vtotal |-> 1125],
      [clock |-> 74250, htotal |-> 1650, vtotal |-> 750],
      [clock |-> 25175, htotal |-> 800, vtotal |-> 525],
      [clock |-> 150000, htotal |-> 100, vtotal |-> 100] }

\* The product of two ints in 32-bit two's complement (the kernel is built
\* with wrapping signed overflow; an unsigned product has the same bits),
\* computed in 16-bit halves.
Mul32(a, b) ==
    LET a1 == a \div 65536
        a0 == a % 65536
        b1 == b \div 65536
        b0 == b % 65536
        q == (a0 \div 256) * b0
        low == ((a0 % 256) * b0) + ((q % 65536) * 256)
        hi == (((q \div 65536) * 256) + ((a1 * b0) % 65536)
               + ((a0 * b1) % 65536) + (low \div 65536)) % 65536
    IN  (IF hi >= 32768 THEN hi - 65536 ELSE hi) * 65536 + (low % 65536)

Abs(x) == IF x < 0 THEN -x ELSE x

INT_MIN == -2147483647 - 1

\* a / b of C for b # 0: the quotient truncated toward zero.  INT_MIN / -1
\* overflows: where it does not trap it yields INT_MIN.
Div32(a, b) ==
    IF b = INT_MIN THEN (IF a = INT_MIN THEN 1 ELSE 0)
    ELSE IF a = INT_MIN
    THEN IF b = -1 THEN INT_MIN
         ELSE LET q == (-(a + Abs(b))) \div Abs(b)
              IN  IF b > 0 THEN (-q) - 1 ELSE q + 1
    ELSE IF (a < 0) = (b < 0) THEN Abs(a) \div Abs(b)
    ELSE -(Abs(a) \div Abs(b))

\* vtotal * htotal
Denominator(m) == Mul32(m.vtotal, m.htotal)

\* int vrefresh = (clock * 1000) / (vtotal * htotal).  A division by zero
\* that does not trap yields 0.
Vrefresh(m) ==
    IF Denominator(m) = 0 THEN 0
    ELSE Div32(Mul32(m.clock, 1000), Denominator(m))

\* One of the two divisions of crtc_enable has a zero divisor.
DivByZero(m) == Denominator(m) = 0 \/ Vrefresh(m) = 0

\* The first division of crtc_enable is INT_MIN / -1.
DivOverflow(m) == Mul32(m.clock, 1000) = INT_MIN /\ Denominator(m) = -1

\* A division of crtc_enable is undefined: it traps or yields a value,
\* depending on the architecture.
DivTraps(m) == DivByZero(m) \/ DivOverflow(m)

\* The unsigned int an int converts to, as two 16-bit halves, low half first.
Unsigned(x) ==
    IF x >= 0 THEN << x % 65536, x \div 65536 >>
    ELSE LET y == (x + 2147483647) + 1
         IN  << y % 65536, (y \div 65536) + 32768 >>

\* a + b of two unsigned ints, modulo 2^32.
UAdd32(a, b) ==
    LET l == a[1] + b[1]
    IN  << l % 65536, (a[2] + b[2] + (l \div 65536)) % 65536 >>

\* a <= b and a < b of two unsigned ints.
ULe(a, b) == a[2] < b[2] \/ (a[2] = b[2] /\ a[1] <= b[1])

ULt(a, b) == a[2] < b[2] \/ (a[2] = b[2] /\ a[1] < b[1])

\* the argument of msleep(unsigned int): 1 * 1000 / vrefresh, converted
SettleDelay(m) ==
    Unsigned(IF Vrefresh(m) = 0 THEN 0 ELSE Div32(1 * 1000, Vrefresh(m)))

EncoderModeSetCalls_AlsoPrepares(m) == << "clk_set_rate", "clk_prepare_enable" >>

\* digilent_hdmi_encoder_mode_set, for crtc_state->mode = m.
EncoderModeSetCalls(m) == << "clk_set_rate" >>

\* The unsigned long an int converts to (sign extension), as four 16-bit
\* limbs, least significant first.
SignExtend(x) ==
    LET u == Unsigned(x)
        h == IF x < 0 THEN 65535 ELSE 0
    IN  << u[1], u[2], h, h >>

\* the rate passed to clk_set_rate(clk, unsigned long): mode->clock * 1000,
\* an int product, converted
EncoderModeSetRate(m) == SignExtend(Mul32(m.clock, 1000))

\* digilent_hdmi_crtc_enable, for private->vtc_bridge = vtc.
CrtcEnableCalls(vtc) ==
    (IF vtc # "null" THEN << "bridge_set_timing", "bridge_enable" >> ELSE << >>)
    \o << "msleep" >>

\* The calls made before a division by zero that traps.
CrtcEnableTrapCalls(vtc) ==
    SubSeq(CrtcEnableCalls(vtc), 1, Len(CrtcEnableCalls(vtc)) - 1)

\* digilent_hdmi_crtc_disable.  xlnx_bridge_disable is called without a
\* test of the field, with whatever it holds (NULL included), then the DMA
\* channel is terminated.
CrtcDisableCalls(vtc) == << "bridge_disable", "dma_terminate" >>

\* crtc->state->event after atomic_begin.
AtomicBeginEvent_Kept(ev) == ev

AtomicBeginEvent(ev) == 0

-----------------------------------------------------------------------------
(* Plane controller and descriptor builder: digilent_hdmi_crtc.c *)

\* size_t values are SizeTLimbs limbs of 16 bits, least significant first.
SizeTLimbs == 4
LimbBase == 65536

\* The size_t holding n, for 0 <= n < 2^31.
ToSize(n) ==
    [i \in 1..SizeTLimbs |->
        IF i = 1 THEN n % LimbBase
        ELSE IF i = 2 THEN n \div LimbBase ELSE 0]

RECURSIVE SubLimbs(_, _, _, _)
SubLimbs(a, b, i, borrow) ==
    IF i > SizeTLimbs THEN << >>
    ELSE LET d == a[i] - b[i] - borrow
         IN  << IF d < 0 THEN d + LimbBase ELSE d >>
             \o SubLimbs(a, b, i + 1, IF d < 0 THEN 1 ELSE 0)

\* a - b in size_t arithmetic (modulo 2^(16 * SizeTLimbs))
SizeSub(a, b) == SubLimbs(a, b, 1, 0)

RECURSIVE AddLimbs(_, _, _, _)
AddLimbs(a, b, i, carry) ==
    IF i > SizeTLimbs THEN << >>
    ELSE LET d == a[i] + b[i] + carry
         IN  << d % LimbBase >> \o AddLimbs(a, b, i + 1, d \div LimbBase)

\* a + b in size_t arithmetic
SizeAdd(a, b) == AddLimbs(a, b, 1, 0)

\* The size_t an unsigned int widens to.
Widen(u) == [i \in 1..SizeTLimbs |-> IF i <= 2 THEN u[i] ELSE 0]

\* Framebuffers the buffer provider hands out: XRGB8888 (cpp 4).
Framebuffers ==
    { [paddr |-> 4096, pitch |-> 8, cpp |-> 4],
      [paddr |-> 8192, pitch |-> 16, cpp |-> 4] }

NoFb == [paddr |-> 0, pitch |-> 0, cpp |-> 0]

\* plane->state after drm_mode_config_reset
ResetPlaneState ==
    [crtc |-> FALSE, fb |-> NoFb,
     crtc_x |-> 0, crtc_y |-> 0, crtc_w |-> 0, crtc_h |-> 0]

\* Plane states the commit engine hands to atomic_update.
PlaneStates ==
    { [crtc |-> c, fb |-> NoFb, crtc_x |-> 0, crtc_y |-> 0,
       crtc_w |-> 0, crtc_h |-> 0] : c \in BOOLEAN }
    \cup
    { [crtc |-> c, fb |-> f, crtc_x |-> x, crtc_y |-> y,
       crtc_w |-> w, crtc_h |-> h] :
        c \in BOOLEAN, f \in Framebuffers, x \in -1..1, y \in -1..1,
        w \in 2..3, h \in 1..2 }

\* *private->dma_template after kzalloc
ZeroTemplate ==
    [dir |-> "DMA_MEM_TO_MEM", src_start |-> ToSize(0), frame_size |-> 0,
     numf |-> 0, src_sgl |-> FALSE, src_inc |-> FALSE,
     dst_sgl |-> FALSE, dst_inc |-> FALSE,
     size |-> ToSize(0), icg |-> ToSize(0)]

\* digilent_hdmi_vdma_prep_interleaved_desc: the template it fills in.  The
\* offset is int * int + int * unsigned int, an unsigned int, and only then
\* widened to size_t; the row size is unsigned int * int.
PrepInterleavedDesc_RowsFromWidth(ps) ==
    LET offset == Widen(UAdd32(Unsigned(Mul32(ps.crtc_x, ps.fb.cpp)),
                               Unsigned(Mul32(ps.crtc_y, ps.fb.pitch))))
        hw_row_size == Widen(Unsigned(Mul32(ps.crtc_w, ps.fb.cpp)))
    IN  [dir |-> "DMA_MEM_TO_DEV",
         src_start |-> SizeAdd(ToSize(ps.fb.paddr), offset),
         frame_size |-> 1,
         numf |-> ps.crtc_w,
         src_sgl |-> TRUE, src_inc |-> TRUE,
         dst_sgl |-> FALSE, dst_inc |-> FALSE,
         size |-> hw_row_size,
         icg |-> SizeSub(Widen(Unsigned(ps.fb.pitch)), hw_row_size)]

PrepInterleavedDesc(ps) ==
    LET offset == Widen(UAdd32(Unsigned(Mul32(ps.crtc_x, ps.fb.cpp)),
                               Unsigned(Mul32(ps.crtc_y, ps.fb.pitch))))
        hw_row_size == Widen(Unsigned(Mul32(ps.crtc_w, ps.fb.cpp)))
    IN  [dir |-> "DMA_MEM_TO_DEV",
         src_start |-> SizeAdd(ToSize(ps.fb.paddr), offset),
         frame_size |-> 1,
         numf |-> ps.crtc_h,
         src_sgl |-> TRUE, src_inc |-> TRUE,
         dst_sgl |-> FALSE, dst_inc |-> FALSE,
         size |-> hw_row_size,
         icg |-> SizeSub(Widen(Unsigned(ps.fb.pitch)), hw_row_size)]

\* The guard of digilent_hdmi_plane_atomic_update.
PlaneReady_FbOnly(ps) == ps.fb # NoFb

PlaneReady(ps) == ps.crtc /\ ps.fb # NoFb

\* digilent_hdmi_plane_atomic_update past its guard; desc_ok tells whether
\* dmaengine_prep_interleaved_dma returned a descriptor.
PlaneUpdateCalls_NoTerminate(desc_ok) ==
    << "dma_prep" >>
    \o (IF desc_ok THEN << "dma_submit", "dma_issue_pending" >> ELSE << >>)

PlaneUpdateCalls(desc_ok) ==
    << "dma_terminate", "dma_prep" >>
    \o (IF desc_ok THEN << "dma_submit", "dma_issue_pending" >> ELSE << >>)

\* The polling works after the calls of s, p before them.  drm_dev_alloc
\* makes a new device; poll_init and poll_fini are called on the device of
\* the running probe or remove, which is the one allocated last.
RECURSIVE Polling(_, _)
Polling(p, s) ==
    IF s = << >> THEN p
    ELSE Polling(IF Head(s) = "dev_alloc" THEN Append(p, FALSE)
                 ELSE IF Head(s) \in { "poll_init", "poll_fini" } /\ p # << >>
                 THEN [p EXCEPT ![Len(p)] = (Head(s) = "poll_init")]
                 ELSE p,
                 Tail(s))

\* The channel after the calls of s: busy once a descriptor is issued, idle
\* once terminated.
RECURSIVE DmaBusy(_, _)
DmaBusy(b, s) ==
    IF s = << >> THEN b
    ELSE DmaBusy(IF Head(s) = "dma_issue_pending" THEN TRUE
                 ELSE IF Head(s) = "dma_terminate" THEN FALSE ELSE b,
                 Tail(s))

-----------------------------------------------------------------------------
(* digilent_hdmi_platform_remove *)

\* drm_atomic_helper_shutdown: an active pipeline is disabled through the
\* encoder and CRTC helper callbacks.
Shutdown(active, en, vtc) ==
    IF active THEN EncoderDisableCalls(en) \o CrtcDisableCalls(vtc) ELSE << >>

\* The two statements of digilent_hdmi_unload, which drm_put_dev calls
\* while it unregisters the device.
UnloadPollFini == << "poll_fini" >>

UnloadCleanup(o) == << "mode_config_cleanup" >> \o ModeConfigCleanup(o)

\* The DRM device is registered, so that the commit engine and the probe
\* helper call into the driver: from a successful probe until drm_put_dev
\* has given the device back.  remove holds no lock between its calls, and
\* neither does the unload that drm_put_dev runs.
Registered ==
    phase \in { "bound", "i2c_put", "bridge_put", "of_released", "shut_down",
                "poll_stopped", "cleaned_up" }

-----------------------------------------------------------------------------
(* Connector: mode validation and mode discovery *)

\* Mode flag bits of the mode-setting interface.
DRM_MODE_FLAG_PHSYNC == 1
DRM_MODE_FLAG_INTERLACE == 16
DRM_MODE_FLAG_DBLCLK == 4096
DRM_MODE_FLAG_3D_FRAME_PACKING == 16384
DRM_MODE_FLAG_3D_SIDE_BY_SIDE_HALF == 131072
DRM_MODE_FLAG_3D_MASK == 507904

RECURSIVE BitAnd(_, _)
BitAnd(a, b) ==
    IF a = 0 \/ b = 0 THEN 0
    ELSE (a % 2) * (b % 2) + 2 * BitAnd(a \div 2, b \div 2)

NullMode == [null |-> TRUE]

ModeFlags ==
    { 0, DRM_MODE_FLAG_PHSYNC, DRM_MODE_FLAG_INTERLACE,
      DRM_MODE_FLAG_INTERLACE + DRM_MODE_FLAG_PHSYNC, DRM_MODE_FLAG_DBLCLK,
      DRM_MODE_FLAG_3D_FRAME_PACKING, DRM_MODE_FLAG_3D_SIDE_BY_SIDE_HALF }

\* Modes offered to mode_valid: at and above the ceilings of both limit sets.
ModeArgs ==
    { NullMode } \cup
    { [clock |-> c, hdisplay |-> h, vdisplay |-> v, flags |-> fl] :
        c \in { 75000, 150000, 150001 },
        h \in { 1280, 1920, 1921 },
        v \in { 720, 1080, 1081 },
        fl \in ModeFlags }

ModeValid_BelowCeiling(mode, lim) ==
    IF /\ mode # NullMode
       /\ BitAnd(mode.flags, DRM_MODE_FLAG_INTERLACE + DRM_MODE_FLAG_DBLCLK
                             + DRM_MODE_FLAG_3D_MASK) = 0
       /\ ULt(Unsigned(mode.clock), Unsigned(lim.fmax))
       /\ ULt(Unsigned(mode.hdisplay), Unsigned(lim.hmax))
       /\ ULt(Unsigned(mode.vdisplay), Unsigned(lim.vmax))
    THEN "MODE_OK" ELSE "MODE_BAD"

\* digilent_hdmi_connector_mode_valid.  The ceilings are u32, so each
\* comparison converts the mode's int field to unsigned.
ModeValid(mode, lim) ==
    IF /\ mode # NullMode
       /\ BitAnd(mode.flags, DRM_MODE_FLAG_INTERLACE + DRM_MODE_FLAG_DBLCLK
                             + DRM_MODE_FLAG_3D_MASK) = 0
       /\ ULe(Unsigned(mode.clock), Unsigned(lim.fmax))
       /\ ULe(Unsigned(mode.hdisplay), Unsigned(lim.hmax))
       /\ ULe(Unsigned(mode.vdisplay), Unsigned(lim.vmax))
    THEN "MODE_OK" ELSE "MODE_BAD"

\* The table of standard timings drm_add_modes_noedid draws from (60 Hz
\* entries only), in table order.
DmtModes ==
    << [hdisplay |-> 640, vdisplay |-> 480],
       [hdisplay |-> 800, vdisplay |-> 600],
       [hdisplay |-> 1024, vdisplay |-> 768],
       [hdisplay |-> 1280, vdisplay |-> 720],
       [hdisplay |-> 1920, vdisplay |-> 1080] >>

Fits(d, hmax, vmax) == d.hdisplay <= hmax /\ d.vdisplay <= vmax

RECURSIVE AddModesNoedid(_, _, _)
\* drm_add_modes_noedid: the table entries not larger than hmax x vmax
AddModesNoedid(t, hmax, vmax) ==
    IF t = << >> THEN << >>
    ELSE (IF Fits(Head(t), hmax, vmax)
          THEN << [hdisplay |-> Head(t).hdisplay, vdisplay |-> Head(t).vdisplay,
                   preferred |-> FALSE] >>
          ELSE << >>)
         \o AddModesNoedid(Tail(t), hmax, vmax)

\* drm_set_preferred_mode: marks the probed modes of size hpref x vpref
SetPreferredMode(modes, hpref, vpref) ==
    [i \in DOMAIN modes |->
        [modes[i] EXCEPT !.preferred =
            @ \/ (modes[i].hdisplay = hpref /\ modes[i].vdisplay = vpref)]]

\* Mode lists a readable EDID can describe.
SinkModes ==
    { << >>,
      << [hdisplay |-> 1920, vdisplay |-> 1080, preferred |-> TRUE] >>,
      << [hdisplay |-> 1280, vdisplay |-> 720, preferred |-> TRUE],
         [hdisplay |-> 640, vdisplay |-> 480, preferred |-> FALSE] >> }

Fallback(lim) ==
    LET m == AddModesNoedid(DmtModes, lim.hmax, lim.vmax) IN
    [log |-> << "add_modes_noedid", "set_preferred_mode" >>,
     modes |-> SetPreferredMode(m, lim.hpref, lim.vpref),
     count |-> Len(m)]

GetModes_FallbackOnFailure(i2c, edid_ok, sink, lim) ==
    IF i2c # "null"
    THEN IF ~edid_ok
         THEN [Fallback(lim) EXCEPT !.log = << "get_edid", "DRM_ERROR" >> \o @]
         ELSE [log |-> << "get_edid", "update_edid_property",
                          "add_edid_modes", "kfree_edid" >>,
               modes |-> sink, count |-> Len(sink)]
    ELSE Fallback(lim)

\* digilent_hdmi_connector_get_modes
GetModes(i2c, edid_ok, sink, lim) ==
    IF i2c # "null"
    THEN IF ~edid_ok
         THEN [log |-> << "get_edid", "DRM_ERROR" >>,
               modes |-> << >>, count |-> 0]
         ELSE [log |-> << "get_edid", "update_edid_property",
                          "add_edid_modes", "kfree_edid" >>,
               modes |-> sink, count |-> Len(sink)]
    ELSE Fallback(lim)

\* Execution contexts that can be inside atomic_begin at the same time.
Contexts == 1..2

-----------------------------------------------------------------------------
(* State machine *)

Init ==
    /\ phase = "unbound"
    /\ probes = 0
    /\ last_op = "none"
    /\ ret = "OK"
    /\ log = << >>
    /\ fault = "none"
    /\ of_node \in OfNodes
    /\ hdmi_clock = "null"
    /\ dma = "null"
    /\ vtc_bridge = "null"
    /\ i2c_bus = "null"
    /\ limits = ZeroLimits
    /\ drm_dev = "null"
    /\ polling = << >>
    /\ objs = {}
    /\ dma_template = "null"
    /\ clk_enabled = FALSE
    /\ n_prepare = 0
    /\ n_unprepare = 0
    /\ crtc_active = FALSE
    /\ settle_ms = Unsigned(0)
    /\ event = 0
    /\ ev_queued = 0
    /\ ev_sent = [i \in 1..MaxEvents |-> 0]
    /\ plane_state = ResetPlaneState
    /\ tmpl = ZeroTemplate
    /\ dma_busy = FALSE
    /\ mode_arg = NullMode
    /\ count = 0
    /\ probed_modes = << >>
    /\ pc = [c \in Contexts |-> "idle"]
    /\ ev_local = [c \in Contexts |-> 0]
    /\ event_lock = 0
    /\ adjusted_mode = NullMode
    /\ div0 = FALSE
    /\ clk_rate = SignExtend(0)

\* digilent_hdmi_platform_probe of the device node, with kernel call f forced
\* to fail.  The instance a "notready" phandle points to may have registered
\* by the next attempt.
Probe(n, f) ==
    /\ phase = "unbound"
    /\ probes < MaxProbes
    /\ n.props = of_node.props
    /\ \A k \in { "vtc", "edid_i2c" } :
          \/ n[k] = of_node[k]
          \/ of_node[k] = "notready" /\ n[k] = "ready"
    /\ LET r == ProbeCalls(n, f) IN
        /\ probes' = probes + 1
        /\ last_op' = "probe"
        /\ ret' = r.ret
        /\ log' = r.log
        /\ fault' = f
        /\ of_node' = n
        /\ phase' = IF r.ret = "OK" THEN "bound" ELSE "unbound"
        /\ hdmi_clock' = IF Has(r.log, "clk_get") THEN "devm" ELSE "null"
        /\ dma' = Handle("null", r.log, "dma_request", "dma_release")
        /\ vtc_bridge' = VtcAfter(r.log)
        /\ i2c_bus' = I2cAfter(r.log)
        /\ limits' = IF Has(r.log, "read_limits")
                     THEN ReadLimits(n.props) ELSE ZeroLimits
        /\ drm_dev' = Handle("null", r.log, "dev_alloc", "dev_put")
        /\ polling' = Polling(polling, r.log)
        /\ objs' = Objects({}, r.log)
        /\ dma_template' =
              Handle("null", r.log, "template_alloc", "template_free")
    /\ clk_enabled' = FALSE
    /\ n_prepare' = 0
    /\ n_unprepare' = 0
    /\ crtc_active' = FALSE
    /\ settle_ms' = Unsigned(0)
    /\ event' = 0
    /\ plane_state' = ResetPlaneState
    /\ tmpl' = ZeroTemplate
    /\ dma_busy' = FALSE
    /\ UNCHANGED << ev_queued, ev_sent >>
    /\ UNCHANGED << conn_vars, step_vars >>
    /\ adjusted_mode' = NullMode
    /\ div0' = FALSE
    /\ clk_rate' = SignExtend(0)

\* One step of digilent_hdmi_platform_remove, making calls s.
RemoveStep(from, to, s) ==
    /\ phase = from
    /\ phase' = to
    /\ last_op' = "remove"
    /\ ret' = "OK"
    /\ log' = s
    /\ dma' = Handle(dma, s, "dma_request", "dma_release")
    /\ vtc_bridge' = Handle(vtc_bridge, s, "bridge_get", "bridge_put")
    /\ i2c_bus' = Handle(i2c_bus, s, "i2c_get", "i2c_put")
    /\ drm_dev' = Handle(drm_dev, s, "dev_alloc", "dev_put")
    /\ polling' = Polling(polling, s)
    /\ objs' = Objects(objs, s)
    /\ dma_template' =
          Handle(dma_template, s, "template_alloc", "template_free")
    /\ n_unprepare' = n_unprepare + Count(s, "clk_disable_unprepare")
    /\ dma_busy' = DmaBusy(dma_busy, s)
    /\ UNCHANGED << probes, fault, of_node, hdmi_clock, limits, n_prepare,
                    settle_ms, event, ev_queued, ev_sent, tmpl >>
    /\ UNCHANGED << conn_vars, step_vars >>
    /\ UNCHANGED mode_vars

\* remove: digilent_hdmi_of_release, one statement at a time (no lock is
\* held and the device is registered)
RemoveI2cPut ==
    /\ RemoveStep("bound", "i2c_put", OfReleaseI2c(i2c_bus))
    /\ UNCHANGED << clk_enabled, crtc_active, plane_state >>

RemoveBridgePut ==
    /\ RemoveStep("i2c_put", "bridge_put", OfReleaseBridge(vtc_bridge))
    /\ UNCHANGED << clk_enabled, crtc_active, plane_state >>

RemoveDmaRelease ==
    /\ RemoveStep("bridge_put", "of_released", OfReleaseDma)
    /\ UNCHANGED << clk_enabled, crtc_active, plane_state >>

\* remove: drm_atomic_helper_shutdown
RemoveShutdown ==
    /\ RemoveStep("of_released", "shut_down",
                  << "atomic_shutdown" >>
                  \o Shutdown(crtc_active, clk_enabled, vtc_bridge))
    /\ clk_enabled' = (clk_enabled /\ ~crtc_active)
    /\ crtc_active' = FALSE
    /\ plane_state' = IF crtc_active THEN ResetPlaneState ELSE plane_state

\* remove: drm_put_dev, up to the first statement of digilent_hdmi_unload
RemovePollFini ==
    /\ RemoveStep("shut_down", "poll_stopped",
                  << "drm_put_dev" >> \o UnloadPollFini)
    /\ UNCHANGED << clk_enabled, crtc_active, plane_state >>

\* remove: the drm_mode_config_cleanup of digilent_hdmi_unload
RemoveModeConfigCleanup ==
    /\ RemoveStep("poll_stopped", "cleaned_up", UnloadCleanup(objs))
    /\ UNCHANGED << clk_enabled, crtc_active, plane_state >>

\* remove: drm_put_dev gives the device back
RemoveDevPut ==
    /\ RemoveStep("cleaned_up", "removed", << "dev_put" >>)
    /\ UNCHANGED << clk_enabled, crtc_active, plane_state >>

EncoderEnable ==
    /\ Registered
    /\ LET s == EncoderEnableCalls(clk_enabled) IN
        /\ n_prepare + Len(s) <= MaxClkCalls
        /\ last_op' = "encoder_enable"
        /\ log' = s
        /\ n_prepare' = n_prepare + Len(s)
    /\ ret' = "OK"
    /\ clk_enabled' = TRUE
    /\ UNCHANGED << lifecycle_vars, n_unprepare, crtc_active, settle_ms,
                    event_vars, plane_vars >>
    /\ UNCHANGED << conn_vars, step_vars >>
    /\ UNCHANGED mode_vars

EncoderDisable ==
    /\ Registered
    /\ LET s == EncoderDisableCalls(clk_enabled) IN
        /\ n_unprepare + Len(s) <= MaxClkCalls
        /\ last_op' = "encoder_disable"
        /\ log' = s
        /\ n_unprepare' = n_unprepare + Len(s)
    /\ ret' = "OK"
    /\ clk_enabled' = FALSE
    /\ UNCHANGED << lifecycle_vars, n_prepare, crtc_active, settle_ms,
                    event_vars, plane_vars >>
    /\ UNCHANGED << conn_vars, step_vars >>
    /\ UNCHANGED mode_vars

\* The commit engine hands the encoder the mode m of a modeset.
EncoderModeSet(m) ==
    /\ Registered
    /\ LET s == EncoderModeSetCalls(m) IN
        /\ n_prepare + Count(s, "clk_prepare_enable") <= MaxClkCalls
        /\ last_op' = "encoder_mode_set"
        /\ log' = s
        /\ n_prepare' = n_prepare + Count(s, "clk_prepare_enable")
        /\ n_unprepare' = n_unprepare + Count(s, "clk_disable_unprepare")
    /\ ret' = "OK"
    /\ clk_rate' = EncoderModeSetRate(m)
    /\ UNCHANGED << lifecycle_vars, clk_enabled, crtc_active, settle_ms,
                    event_vars, plane_vars >>
    /\ UNCHANGED << conn_vars, step_vars, adjusted_mode, div0 >>

\* The commit engine enables a CRTC that is off, with adjusted mode m.  An
\* undefined division either traps, ending the handler before msleep, or
\* yields a value (0 for a zero divisor), depending on the architecture.
CrtcEnable(m) ==
    /\ Registered
    /\ ~crtc_active
    /\ last_op' = "crtc_enable"
    /\ adjusted_mode' = m
    /\ div0' = DivByZero(m)
    /\ \E trap \in IF DivTraps(m) THEN BOOLEAN ELSE { FALSE } :
          /\ ret' = IF trap THEN "OOPS" ELSE "OK"
          /\ log' = IF trap THEN CrtcEnableTrapCalls(vtc_bridge)
                    ELSE CrtcEnableCalls(vtc_bridge)
          /\ settle_ms' = IF trap THEN settle_ms ELSE SettleDelay(m)
    /\ crtc_active' = TRUE
    /\ UNCHANGED clk_rate
    /\ UNCHANGED << lifecycle_vars, clock_vars, event_vars, plane_vars >>
    /\ UNCHANGED << conn_vars, step_vars >>

\* The commit engine disables a CRTC that is on.
CrtcDisable ==
    /\ Registered
    /\ crtc_active
    /\ last_op' = "crtc_disable"
    /\ ret' = "OK"
    /\ log' = CrtcDisableCalls(vtc_bridge)
    /\ crtc_active' = FALSE
    /\ dma_busy' = DmaBusy(dma_busy, CrtcDisableCalls(vtc_bridge))
    /\ UNCHANGED << lifecycle_vars, clock_vars, settle_ms, event_vars,
                    plane_state, tmpl >>
    /\ UNCHANGED << conn_vars, step_vars >>
    /\ UNCHANGED mode_vars

\* The commit engine installs a CRTC state that carries a vblank event.
QueueEvent ==
    /\ Registered
    /\ event = 0
    /\ ev_queued < MaxEvents
    /\ last_op' = "queue_event"
    /\ ret' = "OK"
    /\ log' = << >>
    /\ ev_queued' = ev_queued + 1
    /\ event' = ev_queued + 1
    /\ UNCHANGED << lifecycle_vars, clock_vars, crtc_active, settle_ms,
                    ev_sent, plane_vars >>
    /\ UNCHANGED << conn_vars, step_vars >>
    /\ UNCHANGED mode_vars

\* The commit engine swaps in plane state ps and calls atomic_update.
PlaneAtomicUpdate(ps, desc_ok) ==
    /\ Registered
    /\ last_op' = "plane_update"
    /\ ret' = "OK"
    /\ plane_state' = ps
    /\ IF PlaneReady(ps)
       THEN /\ log' = PlaneUpdateCalls(desc_ok)
            /\ tmpl' = PrepInterleavedDesc(ps)
            /\ dma_busy' = DmaBusy(dma_busy, PlaneUpdateCalls(desc_ok))
       ELSE /\ log' = << >>
            /\ UNCHANGED << tmpl, dma_busy >>
    /\ UNCHANGED << lifecycle_vars, clock_vars, crtc_active, settle_ms,
                    event_vars >>
    /\ UNCHANGED << conn_vars, step_vars >>
    /\ UNCHANGED mode_vars

\* The probe helper asks whether mode m can be driven.
ConnectorModeValid(m) ==
    /\ Registered
    /\ last_op' = "mode_valid"
    /\ ret' = ModeValid(m, limits)
    /\ log' = << >>
    /\ mode_arg' = m
    /\ UNCHANGED << lifecycle_vars, clock_vars, crtc_active, settle_ms,
                    event_vars, plane_vars, count, probed_modes, step_vars >>
    /\ UNCHANGED mode_vars

\* The probe helper asks for the modes of the sink; the EDID read succeeds
\* or not, and a readable EDID describes the modes of sink.
ConnectorGetModes(edid_ok, sink) ==
    /\ Registered
    /\ LET r == GetModes(i2c_bus, edid_ok, sink, limits) IN
        /\ last_op' = "get_modes"
        /\ ret' = "OK"
        /\ log' = r.log
        /\ count' = r.count
        /\ probed_modes' = r.modes
    /\ UNCHANGED << lifecycle_vars, clock_vars, crtc_active, settle_ms,
                    event_vars, plane_vars, mode_arg, step_vars >>
    /\ UNCHANGED mode_vars

\* atomic_begin statement by statement, run by context c.  A context is
\* called (pc "read"), loads crtc->state->event into its local, and if that
\* is non-NULL stores NULL to the slot, takes dev->event_lock, sends the
\* event it loaded and drops the lock.
BeginStep(c, from, to, call) ==
    /\ Registered
    /\ pc[c] = from
    /\ pc' = [pc EXCEPT ![c] = to]
    /\ last_op' = "atomic_begin"
    /\ ret' = "OK"
    /\ log' = call
    /\ UNCHANGED << lifecycle_vars, clock_vars, crtc_active, settle_ms,
                    ev_queued, plane_vars, conn_vars >>
    /\ UNCHANGED mode_vars

BeginCall(c) ==
    /\ BeginStep(c, "idle", "read", << >>)
    /\ UNCHANGED << event, ev_sent, ev_local, event_lock >>

BeginRead(c) ==
    /\ BeginStep(c, "read", IF event # 0 THEN "clear" ELSE "idle", << >>)
    /\ ev_local' = [ev_local EXCEPT ![c] = event]
    /\ UNCHANGED << event, ev_sent, event_lock >>

BeginClear(c) ==
    /\ BeginStep(c, "clear", "lock", << >>)
    /\ event' = AtomicBeginEvent(event)
    /\ UNCHANGED << ev_sent, ev_local, event_lock >>

BeginLock(c) ==
    /\ event_lock = 0
    /\ BeginStep(c, "lock", "send", << "spin_lock_irq" >>)
    /\ event_lock' = c
    /\ UNCHANGED << event, ev_sent, ev_local >>

BeginSend(c) ==
    /\ BeginStep(c, "send", "unlock", << "send_vblank_event" >>)
    /\ ev_sent' = [ev_sent EXCEPT ![ev_local[c]] = @ + 1]
    /\ UNCHANGED << event, ev_local, event_lock >>

BeginUnlock(c) ==
    /\ BeginStep(c, "unlock", "idle", << "spin_unlock_irq" >>)
    /\ event_lock' = 0
    /\ ev_local' = [ev_local EXCEPT ![c] = 0]
    /\ UNCHANGED << event, ev_sent >>

Next ==
    \/ \E n \in OfNodes, f \in Faults : Probe(n, f)
    \/ RemoveI2cPut
    \/ RemoveBridgePut
    \/ RemoveDmaRelease
    \/ RemoveShutdown
    \/ RemovePollFini
    \/ RemoveModeConfigCleanup
    \/ RemoveDevPut
    \/ EncoderEnable
    \/ EncoderDisable
    \/ \E m \in Modes : EncoderModeSet(m)
    \/ \E m \in Modes : CrtcEnable(m)
    \/ CrtcDisable
    \/ QueueEvent
    \/ \E c \in Contexts : BeginCall(c)
    \/ \E c \in Contexts : BeginRead(c)
    \/ \E c \in Contexts : BeginClear(c)
    \/ \E c \in Contexts : BeginLock(c)
    \/ \E c \in Contexts : BeginSend(c)
    \/ \E c \in Contexts : BeginUnlock(c)
    \/ \E ps \in PlaneStates, ok \in BOOLEAN : PlaneAtomicUpdate(ps, ok)
    \/ \E m \in ModeArgs : ConnectorModeValid(m)
    \/ \E ok \in BOOLEAN, sink \in SinkModes : ConnectorGetModes(ok, sink)

Spec == Init /\ [][Next]_vars

\* The controllers share no state but the handles probe acquires.  Each
\* specification below runs probe and then the entry points of one side.

\* Lifecycle manager, clock/encoder controller and timing/CRTC controller
NextControl ==
    \/ \E n \in OfNodes, f \in Faults : Probe(n, f)
    \/ RemoveI2cPut
    \/ RemoveBridgePut
    \/ RemoveDmaRelease
    \/ RemoveShutdown
    \/ RemovePollFini
    \/ RemoveModeConfigCleanup
    \/ RemoveDevPut
    \/ EncoderEnable
    \/ EncoderDisable
    \/ \E m \in Modes : CrtcEnable(m)
    \/ CrtcDisable

SpecControl == Init /\ [][NextControl]_vars

\* Plane controller and descriptor builder
NextPlane ==
    \/ \E n \in OfNodes : Probe(n, "none")
    \/ \E ps \in PlaneStates, ok \in BOOLEAN : PlaneAtomicUpdate(ps, ok)

\* The plane is exercised after a probe without faults of one device node:
\* bridge and discovery channel declared and registered, no limit property.
InitPlane ==
    /\ Init
    /\ of_node = [vtc |-> "ready", edid_i2c |-> "ready",
                  props |-> [fmax |-> NoProp, hmax |-> NoProp,
                             vmax |-> NoProp, hpref |-> NoProp,
                             vpref |-> NoProp]]

SpecPlane == InitPlane /\ [][NextPlane]_vars

\* Scanout: CRTC on and off with plane updates in between, up to removal
ScanoutStates ==
    { ResetPlaneState } \cup
    { ps \in PlaneStates :
        ps.crtc /\ ps.crtc_x = 0 /\ ps.crtc_y = 0 /\ ps.crtc_w = 2
        /\ ps.crtc_h = 1 }

NextScanout ==
    \/ \E n \in OfNodes, f \in Faults : Probe(n, f)
    \/ RemoveI2cPut
    \/ RemoveBridgePut
    \/ RemoveDmaRelease
    \/ RemoveShutdown
    \/ RemovePollFini
    \/ RemoveModeConfigCleanup
    \/ RemoveDevPut
    \/ \E m \in Modes : CrtcEnable(m)
    \/ CrtcDisable
    \/ \E ps \in ScanoutStates, ok \in BOOLEAN : PlaneAtomicUpdate(ps, ok)

SpecScanout == Init /\ [][NextScanout]_vars

\* Vblank event hand-off in a sequential run: one caller of atomic_begin at a
\* time, with the commit engine queueing events in between
SeqContexts == { 1 }

NextVblankSeq ==
    \/ \E n \in OfNodes, f \in Faults : Probe(n, f)
    \/ QueueEvent
    \/ \E c \in SeqContexts : BeginCall(c)
    \/ \E c \in SeqContexts : BeginRead(c)
    \/ \E c \in SeqContexts : BeginClear(c)
    \/ \E c \in SeqContexts : BeginLock(c)
    \/ \E c \in SeqContexts : BeginSend(c)
    \/ \E c \in SeqContexts : BeginUnlock(c)

SpecVblankSeq == Init /\ [][NextVblankSeq]_vars

\* Vblank event hand-off with atomic_begin interleaved statement by statement
NextVblankSteps ==
    \/ \E n \in OfNodes, f \in Faults : Probe(n, f)
    \/ QueueEvent
    \/ \E m \in Modes : CrtcEnable(m)
    \/ \E c \in Contexts : BeginCall(c)
    \/ \E c \in Contexts : BeginRead(c)
    \/ \E c \in Contexts : BeginClear(c)
    \/ \E c \in Contexts : BeginLock(c)
    \/ \E c \in Contexts : BeginSend(c)
    \/ \E c \in Contexts : BeginUnlock(c)

SpecVblankSteps == Init /\ [][NextVblankSteps]_vars

\* Modes with their timings, as mode_valid and crtc_enable both see them:
\* a standard mode, modes whose totals are far above their active size, a
\* mode with a 1 kHz clock, and a mode above the active-size ceilings.
TimingModes ==
    { [clock |-> c, hdisplay |-> 640, vdisplay |-> 480, flags |-> 0,
       htotal |-> ht, vtotal |-> vt] :
        c \in { 1, 25175 }, ht \in { 800, 8000, 65535 },
        vt \in { 525, 65535 } }
    \cup
    { [clock |-> 148500, hdisplay |-> h, vdisplay |-> 1080, flags |-> 0,
       htotal |-> 2200, vtotal |-> 1125] : h \in { 1920, 1921 } }

\* Clock controller: the encoder callbacks
NextClock ==
    \/ \E n \in OfNodes, f \in Faults : Probe(n, f)
    \/ EncoderEnable
    \/ EncoderDisable
    \/ \E m \in Modes : EncoderModeSet(m)

SpecClock == Init /\ [][NextClock]_vars

\* Mode setting: validation by the connector, then the CRTC switched on with
\* the mode
NextModeset ==
    \/ \E n \in OfNodes, f \in Faults : Probe(n, f)
    \/ \E m \in TimingModes : ConnectorModeValid(m)
    \/ \E m \in TimingModes : CrtcEnable(m)
    \/ CrtcDisable

SpecModeset == Init /\ [][NextModeset]_vars

\* Connector
NextConnector ==
    \/ \E n \in OfNodes, f \in Faults : Probe(n, f)
    \/ \E m \in ModeArgs : ConnectorModeValid(m)
    \/ \E ok \in BOOLEAN, sink \in SinkModes : ConnectorGetModes(ok, sink)

SpecConnector == Init /\ [][NextConnector]_vars

-----------------------------------------------------------------------------
(* Properties *)

Reverse(s) == [i \in 1..Len(s) |-> s[Len(s) + 1 - i]]

\* s is t with some elements left out.
RECURSIVE IsSubSeq(_, _)
IsSubSeq(s, t) ==
    IF s = << >> THEN TRUE
    ELSE IF t = << >> THEN FALSE
    ELSE IF Head(s) = Head(t) THEN IsSubSeq(Tail(s), Tail(t))
    ELSE IsSubSeq(s, Tail(t))

\* Every call of set A in s comes before every call of set B in s.
AllBefore(s, A, B) ==
    \A i, j \in 1..Len(s) : (s[i] \in A /\ s[j] \in B) => i < j

\* Hardware resources parse_of takes by hand, in acquisition order, and the
\* call that gives each back.
AcquireOrder == << "dma_request", "bridge_get", "i2c_get" >>
ReleaseOrder == << "i2c_put", "bridge_put", "dma_release" >>
AcquireCalls == { AcquireOrder[i] : i \in 1..Len(AcquireOrder) }
ReleaseCalls == { ReleaseOrder[i] : i \in 1..Len(ReleaseOrder) }
ReleaseOf(a) ==
    CASE a = "dma_request" -> "dma_release"
      [] a = "bridge_get" -> "bridge_put"
      [] a = "i2c_get" -> "i2c_put"

InitCalls == { "template_alloc", "plane_init", "crtc_init", "encoder_init",
               "connector_init" }
TeardownOf(c) ==
    CASE c = "template_alloc" -> "template_free"
      [] c = "plane_init" -> "plane_cleanup"
      [] c = "crtc_init" -> "crtc_cleanup"
      [] c = "encoder_init" -> "encoder_cleanup"
      [] c = "connector_init" -> "connector_cleanup"
TeardownCalls == { TeardownOf(c) : c \in InitCalls }

\* The device is bound and remove has not yet reached the atomic shutdown.
ShutdownPending ==
    phase \in { "bound", "i2c_put", "bridge_put", "of_released" }

\* C1: on remove, the pipeline is forced inactive (atomic shutdown) first,
\* then the discovery channel, the timing bridge and the DMA channel are
\* released in that order, and the DRM device is released last; no resource
\* is released before the shutdown has run.
C1_ShutdownThenReleaseThenDevice ==
    /\ ShutdownPending =>
          (dma = "held" /\ vtc_bridge # "released" /\ i2c_bus # "released")
    /\ phase \in { "i2c_put", "bridge_put", "of_released", "shut_down",
                   "poll_stopped", "cleaned_up", "removed" } =>
          /\ vtc_bridge = "released" => i2c_bus # "held"
          /\ dma = "released" => (vtc_bridge # "held" /\ i2c_bus # "held")
    /\ (last_op = "remove" /\ Has(log, "dev_put")) =>
          (log[Len(log)] = "dev_put" /\ dma = "released")

\* C2: when probe fails at a construction stage (template, plane, CRTC,
\* encoder, connector, device registration), exactly the objects that had
\* been constructed are torn down, all of that before any resource is
\* released, and each acquired resource is released exactly once.
C2_ConstructionFailureRollsBack ==
    (last_op = "probe" /\ fault \in ConstructionFaults /\ Has(log, "poll_init"))
    =>  /\ ret # "OK"
        /\ \A c \in InitCalls :
              /\ Count(log, c) <= 1
              /\ Count(log, TeardownOf(c)) = Count(log, c)
              /\ Has(log, c) => First(log, c) < First(log, TeardownOf(c))
        /\ objs = {}
        /\ dma_template # "held"
        /\ AllBefore(log, TeardownCalls, ReleaseCalls)
        /\ \A a \in AcquireCalls :
              /\ Count(log, a) <= 1
              /\ Count(log, ReleaseOf(a)) = Count(log, a)
        /\ dma = "released"
        /\ vtc_bridge # "held"
        /\ i2c_bus # "held"

\* C2 witness: the connector stage failed after plane, CRTC and encoder were
\* built, with bridge and discovery channel both acquired.
C2_Witness ==
    /\ last_op = "probe"
    /\ fault = "attach_encoder"
    /\ ret = "ERR"
    /\ Has(log, "encoder_cleanup")
    /\ Has(log, "crtc_cleanup")
    /\ Has(log, "bridge_put")
    /\ Has(log, "i2c_put")

\* C3: a probe that fails after the DRM device was allocated and connector
\* polling was started returns with the device released and polling stopped.
C3_FailedProbeReleasesDevice ==
    (last_op = "probe" /\ ret # "OK" /\ Has(log, "poll_init"))
    => (drm_dev # "held" /\ ~polling[Len(polling)])

\* C4: parse_of acquires in the order clock, DMA channel, timing bridge,
\* discovery channel, limits; when it fails, the resources it took by hand
\* are released in the reverse of the order they were acquired in, each once,
\* and nothing that was not acquired is released.  (The clock is
\* device-managed: parse_of never gives it back by hand.)
C4_ParseOfUnwindsInReverse ==
    last_op = "probe" =>
        /\ IsSubSeq(Only(log, AcquireCalls \cup { "clk_get", "read_limits" }),
                    << "clk_get" >> \o AcquireOrder \o << "read_limits" >>)
        /\ (ret # "OK" /\ ~Has(log, "read_limits")) =>
              /\ Only(log, ReleaseCalls) =
                    Reverse([i \in 1..Len(Only(log, AcquireCalls)) |->
                                ReleaseOf(Only(log, AcquireCalls)[i])])
              /\ AllBefore(log, AcquireCalls, ReleaseCalls)
              /\ dma # "held" /\ vtc_bridge # "held" /\ i2c_bus # "held"

\* C4 witness: the discovery channel was declared but not available, after
\* the bridge had been acquired: bridge, then DMA channel, are given back.
C4_Witness ==
    /\ last_op = "probe"
    /\ ret = "EPROBE_DEFER"
    /\ log = << "clk_get", "dma_request", "bridge_get", "bridge_put",
                "dma_release" >>

\* C5: clk_prepare_enable is called only by an encoder enable that finds the
\* clock flag clear; an enable that finds it set makes no call.
C5_EnableIdempotent ==
    [][ /\ n_prepare' # n_prepare =>
              /\ n_prepare' = n_prepare + 1
              /\ last_op' = "encoder_enable"
              /\ ~clk_enabled /\ clk_enabled'
        /\ last_op' = "encoder_enable" =>
              /\ clk_enabled'
              /\ n_unprepare' = n_unprepare
              /\ log' = IF clk_enabled THEN << >>
                        ELSE << "clk_prepare_enable" >>
              /\ n_prepare' = n_prepare + Len(log')
      ]_vars

\* C5 witness: an enable ran with the clock already enabled and made no call;
\* one prepare call was made in all.
C5_Witness ==
    /\ last_op = "encoder_enable"
    /\ log = << >>
    /\ clk_enabled
    /\ n_prepare = 1
    /\ n_unprepare = 0

\* C6: an encoder disable that finds the clock flag clear makes no clock
\* call and leaves the flag clear.
C6_DisableWhenDisabledIsNoop ==
    [][ (last_op' = "encoder_disable" /\ ~clk_enabled) =>
            /\ log' = << >>
            /\ ~clk_enabled'
            /\ n_unprepare' = n_unprepare
            /\ n_prepare' = n_prepare
      ]_vars

\* C6 witness: a disable ran before any enable and did nothing.
C6_Witness ==
    /\ last_op = "encoder_disable"
    /\ log = << >>
    /\ ~clk_enabled
    /\ n_prepare = 0
    /\ n_unprepare = 0

\* C7: in a sequential run (one caller of atomic_begin at a time) every
\* vblank event the commit engine queued is signalled exactly once when
\* consumed and not at all while still pending; the send happens under the
\* event lock, and atomic_begin returns with the event it found cleared from
\* the slot.
C7_EventSignalledOnce ==
    /\ \A id \in 1..MaxEvents : ev_sent[id] <= (IF id <= ev_queued THEN 1 ELSE 0)
    /\ \A c \in SeqContexts :
          /\ pc[c] = "idle" =>
                \A id \in 1..MaxEvents :
                    ev_sent[id] = IF id <= ev_queued /\ id # event THEN 1 ELSE 0
          /\ pc[c] \in { "send", "unlock" } => event_lock = c
          /\ pc[c] \in { "lock", "send", "unlock" } => event # ev_local[c]

\* C7 witness: atomic_begin ran again after the one queued event had been
\* signalled, found the slot empty and returned without signalling.
C7_Witness ==
    /\ last_op = "atomic_begin"
    /\ pc[1] = "idle"
    /\ log = << >>
    /\ ev_queued = 1
    /\ event = 0
    /\ ev_sent[1] = 1

\* C8: a plane update whose state has no framebuffer, or no CRTC, makes no
\* DMA call, leaves template and channel as they were, and reports no error.
C8_UpdateWithoutFbIsNoop ==
    [][ (last_op' = "plane_update"
         /\ (~plane_state'.crtc \/ plane_state'.fb = NoFb)) =>
            /\ log' = << >>
            /\ tmpl' = tmpl
            /\ dma_busy' = dma_busy
            /\ ret' = "OK"
      ]_vars

\* C8 witness: an update with a CRTC but no framebuffer ran while a transfer
\* was in flight, and made no call.
C8_Witness ==
    /\ last_op = "plane_update"
    /\ plane_state.crtc
    /\ plane_state.fb = NoFb
    /\ log = << >>
    /\ dma_busy

\* C9: a plane update that passes its guard makes the DMA calls terminate,
\* submit, issue when the descriptor was built and terminate alone when it
\* was not; a submit is always preceded by a terminate of the same update.
C9_UpdateTerminatesThenSubmits ==
    (last_op = "plane_update" /\ plane_state.crtc /\ plane_state.fb # NoFb)
    =>  LET calls == Only(log, { "dma_terminate", "dma_submit",
                                 "dma_issue_pending" })
        IN  /\ \/ calls = << "dma_terminate", "dma_submit",
                             "dma_issue_pending" >>
               \/ calls = << "dma_terminate" >>
            /\ Count(log, "dma_prep") = 1
            /\ dma_busy = Has(log, "dma_issue_pending")

\* C9 witness: descriptor construction failed: the transfer was terminated
\* and nothing was submitted.
C9_Witness ==
    /\ last_op = "plane_update"
    /\ plane_state.crtc
    /\ plane_state.fb # NoFb
    /\ log = << "dma_terminate", "dma_prep" >>
    /\ ~dma_busy

\* The inter-chunk gap stride - width * pixel_size is negative.
NegativeGap(ps) == ps.crtc_w * ps.fb.cpp > ps.fb.pitch

\* A size_t above SIZE_MAX / 2: the image of a negative difference.
Wrapped(v) == v[SizeTLimbs] >= LimbBase \div 2

\* C10: the gap of the template is stride - width * pixel_size, never
\* negative; an update whose gap would be negative is rejected: no template
\* with a wrapped gap is handed to the DMA engine and nothing is submitted.
C10_NegativeGapRejected ==
    (last_op = "plane_update" /\ plane_state.crtc /\ plane_state.fb # NoFb)
    =>  IF NegativeGap(plane_state)
        THEN ~Has(log, "dma_prep") /\ ~Has(log, "dma_submit")
        ELSE /\ tmpl.icg = ToSize(plane_state.fb.pitch
                                  - plane_state.crtc_w * plane_state.fb.cpp)
             /\ ~Wrapped(tmpl.icg)

\* The crop of ps lies inside its buffer: the offsets are not negative and
\* x * pixel_size + width * pixel_size does not exceed the stride.
ValidGeometry(ps) ==
    /\ ps.crtc_x >= 0
    /\ ps.crtc_y >= 0
    /\ ps.crtc_x * ps.fb.cpp + ps.crtc_w * ps.fb.cpp <= ps.fb.pitch

\* C11: for a valid geometry the template of a plane update is
\* memory-to-device, starts at base + y * stride + x * pixel_size, has one
\* chunk per row of width * pixel_size bytes, repeats height times and does
\* not increment the destination; it is a function of the plane state alone,
\* whatever the template held before.
C11_DescriptorFromGeometry ==
    (last_op = "plane_update" /\ plane_state.crtc /\ plane_state.fb # NoFb
     /\ ValidGeometry(plane_state))
    =>  /\ tmpl.dir = "DMA_MEM_TO_DEV"
        /\ tmpl.src_start =
              << plane_state.fb.paddr
                 + plane_state.crtc_y * plane_state.fb.pitch
                 + plane_state.crtc_x * plane_state.fb.cpp, 0, 0, 0 >>
        /\ tmpl.frame_size = 1
        /\ tmpl.size = << plane_state.crtc_w * plane_state.fb.cpp, 0, 0, 0 >>
        /\ tmpl.numf = plane_state.crtc_h
        /\ tmpl.src_inc /\ tmpl.src_sgl
        /\ ~tmpl.dst_inc /\ ~tmpl.dst_sgl

\* C11 witness: a crop at x = 1, y = 0 of the 16-byte-stride buffer, two rows
\* of three pixels, was built into the reused template.
C11_Witness ==
    /\ last_op = "plane_update"
    /\ plane_state.crtc
    /\ plane_state.fb.pitch = 16
    /\ plane_state.crtc_x = 1 /\ plane_state.crtc_y = 0
    /\ plane_state.crtc_w = 3 /\ plane_state.crtc_h = 2
    /\ tmpl.src_start = << 8196, 0, 0, 0 >>
    /\ tmpl.numf = 2

\* C12: crtc_enable sleeps for one refresh period in whole milliseconds and
\* never for less than 1 ms, whatever the refresh rate of the mode.
C12_SettleAtLeastOneMs ==
    last_op = "crtc_enable" => (Has(log, "msleep") /\ settle_ms # Unsigned(0))

\* C13: mode_valid accepts a mode exactly when it carries none of the
\* interlace, double-clock and 3D flags and its clock, active width and active
\* height are each at most the corresponding ceiling; a mode exactly at the
\* three ceilings is accepted.
Unflagged(m) == m.flags \in { 0, DRM_MODE_FLAG_PHSYNC }

C13_ModeValidIffWithinLimits ==
    (last_op = "mode_valid" /\ mode_arg # NullMode)
    =>  (ret = "MODE_OK" <=>
            /\ Unflagged(mode_arg)
            /\ mode_arg.clock <= limits.fmax
            /\ mode_arg.hdisplay <= limits.hmax
            /\ mode_arg.vdisplay <= limits.vmax)

C13_Witness ==
    /\ last_op = "mode_valid"
    /\ mode_arg # NullMode
    /\ mode_arg.flags = DRM_MODE_FLAG_PHSYNC
    /\ mode_arg.clock = limits.fmax
    /\ mode_arg.hdisplay = limits.hmax
    /\ mode_arg.vdisplay = limits.vmax
    /\ limits.fmax = 75000
    /\ ret = "MODE_OK"

\* C14: without a discovery channel get_modes returns the fallback modes that
\* fit max-h x max-v, and for every configuration of the limits exactly one
\* returned entry has the preferred size and is marked preferred.
PreferredEntries ==
    { i \in DOMAIN probed_modes :
        /\ probed_modes[i].hdisplay = limits.hpref
        /\ probed_modes[i].vdisplay = limits.vpref
        /\ probed_modes[i].preferred }

C14_FallbackHasOnePreferred ==
    (last_op = "get_modes" /\ i2c_bus = "null")
    =>  /\ count = Len(probed_modes)
        /\ \A i \in DOMAIN probed_modes :
              Fits(probed_modes[i], limits.hmax, limits.vmax)
        /\ Cardinality(PreferredEntries) = 1

\* C15: with a discovery channel configured, a failed EDID read yields zero
\* modes and no fallback list; the fallback list is built only when no
\* discovery channel is configured.
C15_ReadFailureYieldsNoModes ==
    last_op = "get_modes"
    =>  /\ (i2c_bus # "null" /\ Has(log, "DRM_ERROR"))
              => (count = 0 /\ probed_modes = << >>)
        /\ Has(log, "add_modes_noedid") <=> i2c_bus = "null"

C15_Witness ==
    /\ last_op = "get_modes"
    /\ i2c_bus = "held"
    /\ log = << "get_edid", "DRM_ERROR" >>
    /\ count = 0

\* C16: CRTC disable touches the timing bridge only when one is present and
\* always terminates the DMA channel, so no transfer is in flight afterwards;
\* without a timing bridge, enable and disable make no bridge call but still
\* sleep (enable) and terminate the DMA (disable).
BridgeOps == { "bridge_set_timing", "bridge_enable", "bridge_disable" }

C16_DisableStopsDmaBridgeOptional ==
    /\ last_op = "crtc_disable"
          =>  /\ ~dma_busy
              /\ Count(log, "dma_terminate") = 1
              /\ Has(log, "bridge_disable") <=> vtc_bridge # "null"
    /\ last_op = "crtc_enable"
          =>  /\ Has(log, "msleep")
              /\ Has(log, "bridge_enable") <=> vtc_bridge # "null"
    /\ (last_op \in { "crtc_enable", "crtc_disable" } /\ vtc_bridge = "null")
          => \A i \in DOMAIN log : log[i] \notin BridgeOps

\* C17: an optional dependency (timing bridge, EDID bus) that the node does
\* not declare is reported and parsing continues with the handle unset, up to
\* success; one that is declared but whose instance is not there yet makes
\* acquisition fail with EPROBE_DEFER, after what was acquired is released.
\* The case is a probe whose parse_of got past the clock and the DMA channel.
NoneHeld == dma # "held" /\ vtc_bridge # "held" /\ i2c_bus # "held"

Deferred == of_node.vtc = "notready" \/ of_node.edid_i2c = "notready"

C17_OptionalDependencies ==
    (last_op = "probe" /\ Has(log, "dma_request"))
    =>  /\ Deferred => (ret = "EPROBE_DEFER" /\ NoneHeld)
        /\ of_node.vtc = "absent"
              =>  /\ Has(log, "report_no_vtc")
                  /\ vtc_bridge = "null"
                  /\ of_node.edid_i2c # "notready" => Has(log, "read_limits")
        /\ (of_node.edid_i2c = "absent" /\ of_node.vtc # "notready")
              =>  /\ Has(log, "report_no_i2c")
                  /\ i2c_bus = "null"
                  /\ Has(log, "read_limits")
        /\ (~Deferred /\ fault = "none") => ret = "OK"

C17_Witness ==
    /\ last_op = "probe"
    /\ fault = "none"
    /\ of_node.vtc = "absent"
    /\ of_node.edid_i2c = "absent"
    /\ ret = "OK"
    /\ vtc_bridge = "null"
    /\ i2c_bus = "null"
    /\ probes = 2

\* C18: atomic_begin tests and clears the pending-event slot only while it
\* holds the event lock, so that under any interleaving with the producer of
\* the slot or with another atomic_begin no event is signalled twice and none
\* is lost; crtc_enable does not take the lock around its settle delay.
SlotAccessLocked ==
    \A c \in Contexts : pc[c] \in { "read", "clear" } => event_lock = c

NoDoubleSignal == \A id \in 1..MaxEvents : ev_sent[id] <= 1

NoLostEvent ==
    (\A c \in Contexts : pc[c] = "idle")
    => \A id \in 1..MaxEvents : (id <= ev_queued /\ id # event) => ev_sent[id] >= 1

C18_SlotAccessUnderEventLock ==
    /\ SlotAccessLocked
    /\ NoDoubleSignal
    /\ NoLostEvent
    /\ last_op = "crtc_enable" => ~Has(log, "spin_lock_irq")

\* C19: over every lifecycle, no DMA operation (terminate, prepare, submit,
\* issue) and no bridge operation is invoked on a DMA channel or bridge
\* handle after that handle was released, the CRTC disable of the atomic
\* shutdown during remove included.
DmaOps == { "dma_terminate", "dma_prep", "dma_submit", "dma_issue_pending" }

NoUseAfter(s, put, ops) ==
    \A i, j \in DOMAIN s : (i < j /\ s[i] = put) => s[j] \notin ops

C19_NoUseAfterRelease ==
    /\ NoUseAfter(log, "dma_release", DmaOps)
    /\ NoUseAfter(log, "bridge_put", BridgeOps)
    /\ (last_op # "probe" /\ \E i \in DOMAIN log : log[i] \in DmaOps)
          => dma = "held"
    /\ (last_op # "probe" /\ \E i \in DOMAIN log : log[i] \in BridgeOps)
          => vtc_bridge # "released"

\* C20: the DMA descriptor template allocated by crtc_create is freed exactly
\* once on every path (failure at plane init, at CRTC init, a later probe
\* failure that runs the mode-config cleanup, and remove): never twice, never
\* leaked, and never used by a plane update after it was freed.
Allocs == Count(log, "template_alloc")

Frees == Count(log, "template_free")

C20_TemplateFreedExactlyOnce ==
    /\ last_op = "probe"
          =>  /\ Allocs <= 1
              /\ Frees = IF ret = "OK" THEN 0 ELSE Allocs
              /\ AllBefore(log, { "template_alloc" }, { "template_free" })
    /\ last_op = "remove"
          => (Allocs = 0
              /\ Frees = IF Has(log, "mode_config_cleanup") THEN 1 ELSE 0)
    /\ last_op \notin { "probe", "remove" } => (Allocs = 0 /\ Frees = 0)
    /\ dma_template = "held"
          <=> phase \in { "bound", "i2c_put", "bridge_put", "of_released",
                          "shut_down", "poll_stopped" }
    /\ (last_op = "plane_update" /\ Has(log, "dma_prep"))
          => dma_template = "held"

\* C21: for every mode that mode_valid accepts, the refresh rate crtc_enable
\* computes as (clock * 1000) / (vtotal * htotal) in 32-bit signed arithmetic
\* is at least 1 and neither product overflows, so that 1000 / vrefresh never
\* divides by zero.
FitsInt(a, b) == b = 0 \/ a <= 2147483647 \div b

C21_AcceptedModeRefreshAtLeastOne ==
    (last_op = "crtc_enable" /\ ModeValid(adjusted_mode, limits) = "MODE_OK")
    =>  /\ FitsInt(adjusted_mode.clock, 1000)
        /\ FitsInt(adjusted_mode.vtotal, adjusted_mode.htotal)
        /\ Vrefresh(adjusted_mode) >= 1
        /\ ~div0

\* C22: after any sequence of encoder enable, disable and mode_set calls the
\* clock prepare/enable calls outnumber the disable/unprepare calls by 1 when
\* the clock flag is set and by 0 when it is clear; mode_set sets the clock
\* rate only and leaves the flag and both counts as they were.
ClockBalance == n_prepare - n_unprepare

C22_ClockCountMatchesFlag ==
    /\ [](ClockBalance = IF clk_enabled THEN 1 ELSE 0)
    /\ [][ last_op' = "encoder_mode_set" =>
              /\ clk_enabled' = clk_enabled
              /\ n_prepare' = n_prepare
              /\ n_unprepare' = n_unprepare
              /\ log' = << "clk_set_rate" >>
              /\ \E m \in Modes : clk_rate' = ToSize(m.clock * 1000)
       ]_vars

C22_Witness ==
    /\ last_op = "encoder_mode_set"
    /\ clk_enabled
    /\ n_prepare = 2
    /\ n_unprepare = 1
    /\ clk_rate = ToSize(74250000)

====
